---- MODULE Spec2Model ----
(***************************************************************************)
(* State-machine model of the LinkedIn research agent:                     *)
(*   - ResearchStep / LinkedInResearchAgent   (simple_linkedin_agent.py)   *)
(*   - LinkedInRapidAPIClient                 (linkedin_rapidapi_client.py)*)
(*   - start_research_task / run_research_task / research route (app.py)   *)
(*                                                                         *)
(* Texts are sequences of tokens (a token is a character for organisation *)
(* names, which the code lower-cases and substring-matches, and a phrase   *)
(* elsewhere); f-strings and "+" are concatenation (\o).  Python values    *)
(* whose type the code tests (None, truthiness, join, len) carry a tag.    *)
(* One action models the code between two outbound calls (LLM service,     *)
(* directory provider, database commit), the call's outcome being the      *)
(* action's input.                                                         *)
(*                                                                         *)
(* Spec is the application: submissions and the runs they schedule.        *)
(* FairSpec is Spec with the scheduling of the tasks that exist.           *)
(* ClientSpec drives one LinkedInRapidAPIClient directly, call after call. *)
(***************************************************************************)
EXTENDS Integers, Sequences, FiniteSets, TLC

VARIABLES
    db,        \* committed ResearchQuery rows: id -> [query, status, summary]
    rows,      \* committed child rows: id -> [steps, profiles, insights]
    nextId,    \* next autoincrement primary key
    pc,        \* per task: position of run_research_task / research
    agent,     \* per task: the LinkedInResearchAgent instance fields
    frame,     \* per task: locals of research() that live across awaits
    calls,     \* per task: log of outbound calls made by the run
    result,    \* per task: what research() handed back to the task runner
    client,    \* ClientSpec: the fields of one LinkedInRapidAPIClient
    lookups    \* ClientSpec: the calls made on that client, with their answers

vars == <<db, rows, nextId, pc, agent, frame, calls, result, client, lookups>>

\* the state of the application, and the state of the directly driven client
appVars == <<db, rows, nextId, pc, agent, frame, calls, result>>

clientVars == <<client, lookups>>

(***************************************************************************)
(* Bounds                                                                  *)
(***************************************************************************)
MaxQueries == 1

\* calls made on the directly driven client
MaxLookups == 2

Ids == 1..MaxQueries

(***************************************************************************)
(* Python values                                                           *)
(***************************************************************************)
PyNone == [tag |-> "none"]

PyStr(s) == [tag |-> "str", v |-> s]

PyList(l) == [tag |-> "list", v |-> l]

PyDict(d) == [tag |-> "dict", v |-> d]

PyNum(n) == [tag |-> "num", v |-> n]

\* bool(x)
Truthy(x) ==
    CASE x.tag = "none" -> FALSE
      [] x.tag = "str"  -> x.v # <<>>
      [] x.tag = "list" -> x.v # <<>>
      [] x.tag = "dict" -> DOMAIN x.v # {}
      [] x.tag = "num"  -> x.v # 0

\* d.get(k, default)
Get(d, k, default) == IF k \in DOMAIN d.v THEN d.v[k] ELSE default

\* a dict whose values are the str values of the texts of r
PyStrRec(r) == [k \in DOMAIN r |-> PyStr(r[k])]

\* A one-phrase text
T(s) == <<s>>

\* phrase occurs in text as a contiguous run of tokens ("phrase in text")
Contains(text, phrase) ==
    \E i \in 0..(Len(text) - Len(phrase)) :
        \A j \in 1..Len(phrase) : text[i + j] = phrase[j]

\* sep.join(x) raises TypeError unless x is an iterable of str
JoinRaises(x) ==
    CASE x.tag = "list" -> \E i \in 1..Len(x.v) : x.v[i].tag # "str"
      [] x.tag = "str"  -> FALSE
      [] OTHER          -> TRUE

\* len(x) raises TypeError for None and numbers
LenRaises(x) == x.tag \in {"none", "num"}

PyLen(x) == IF x.tag = "dict" THEN Cardinality(DOMAIN x.v) ELSE Len(x.v)

(***************************************************************************)
(* ResearchStep                                                            *)
(***************************************************************************)
\* ResearchStep.__init__ ; now is datetime.now()
NewStep(description, reasoning, now) ==
    [description |-> description,
     reasoning   |-> reasoning,
     status      |-> "in_progress",
     result      |-> PyNone,
     start_time  |-> now,
     end_time    |-> PyNone,
     confidence  |-> PyNone]

\* a complete that forgets to read the clock
complete_NoEndTime(step, success, res, confidence, now) ==
    [step EXCEPT !.status     = IF success THEN "completed" ELSE "failed",
                 !.result     = res,
                 !.confidence = confidence]

\* ResearchStep.complete(success, result, confidence)
complete(step, success, res, confidence, now) ==
    [step EXCEPT !.status     = IF success THEN "completed" ELSE "failed",
                 !.result     = res,
                 !.end_time   = PyNum(now),
                 !.confidence = confidence]

\* a to_dict that reports the end reading as the duration
to_dict_Elapsed(step) ==
    [description |-> step.description,
     reasoning   |-> step.reasoning,
     status      |-> step.status,
     result      |-> step.result,
     start_time  |-> step.start_time,
     end_time    |-> step.end_time,
     duration    |-> step.end_time,
     confidence  |-> step.confidence]

\* ResearchStep.to_dict
to_dict(step) ==
    [description |-> step.description,
     reasoning   |-> step.reasoning,
     status      |-> step.status,
     result      |-> step.result,
     start_time  |-> step.start_time,
     end_time    |-> step.end_time,
     duration    |-> IF step.end_time.tag # "none"
                     THEN PyNum(step.end_time.v - step.start_time)
                     ELSE PyNone,
     confidence  |-> step.confidence]

(***************************************************************************)
(* LinkedInRapidAPIClient                                                  *)
(***************************************************************************)
LowerChar(c) ==
    CASE c = "G" -> "g" [] c = "A" -> "a" [] c = "M" -> "m"
      [] c = "F" -> "f" [] c = "Z" -> "z" [] c = "C" -> "c" [] OTHER -> c

\* str.lower()
Lower(s) == [i \in 1..Len(s) |-> LowerChar(s[i])]

NameGoogle == <<"G", "o", "o", "g", "l", "e">>

NameZeta == <<"Z", "e", "t", "a">>

NameApp == <<"A", "p", "p">>

NameGoogleCloud == NameGoogle \o <<" ", "C", "l", "o", "u", "d">>

\* the companies dict of _get_fallback_company_info, in insertion order
CompanyTable ==
    << [key  |-> <<"g", "o", "o", "g", "l", "e">>,
        data |-> [name         |-> T("Google"),
                  industry     |-> T("Technology"),
                  location     |-> T("Mountain View, CA"),
                  description  |-> T("Google is a multinational technology company that specializes in Internet-related services and products."),
                  website      |-> T("https://www.google.com"),
                  linkedin_url |-> T("https://www.linkedin.com/company/google/"),
                  logo_url     |-> T("https://upload.wikimedia.org/wikipedia/commons/thumb/5/53/Google_%22G%22_Logo.svg/2048px-Google_%22G%22_Logo.svg.png")]],
       [key  |-> <<"m", "i", "c", "r", "o", "s", "o", "f", "t">>,
        data |-> [name         |-> T("Microsoft"),
                  industry     |-> T("Technology"),
                  location     |-> T("Redmond, WA"),
                  description  |-> T("Microsoft is a multinational technology company that develops, manufactures, licenses, supports, and sells computer software, consumer electronics, and personal computers and services."),
                  website      |-> T("https://www.microsoft.com"),
                  linkedin_url |-> T("https://www.linkedin.com/company/microsoft/"),
                  logo_url     |-> T("https://upload.wikimedia.org/wikipedia/commons/thumb/4/44/Microsoft_logo.svg/2048px-Microsoft_logo.svg.png")]],
       [key  |-> <<"a", "p", "p", "l", "e">>,
        data |-> [name         |-> T("Apple"),
                  industry     |-> T("Technology"),
                  location     |-> T("Cupertino, CA"),
                  description  |-> T("Apple is a multinational technology company that designs, develops, and sells consumer electronics, computer software, and online services."),
                  website      |-> T("https://www.apple.com"),
                  linkedin_url |-> T("https://www.linkedin.com/company/apple/"),
                  logo_url     |-> T("https://upload.wikimedia.org/wikipedia/commons/thumb/f/fa/Apple_logo_black.svg/1667px-Apple_logo_black.svg.png")]],
       [key  |-> <<"a", "m", "a", "z", "o", "n">>,
        data |-> [name         |-> T("Amazon"),
                  industry     |-> T("E-commerce, Cloud Computing"),
                  location     |-> T("Seattle, WA"),
                  description  |-> T("Amazon is a multinational technology company focusing on e-commerce, cloud computing, digital streaming, and artificial intelligence."),
                  website      |-> T("https://www.amazon.com"),
                  linkedin_url |-> T("https://www.linkedin.com/company/amazon/"),
                  logo_url     |-> T("https://upload.wikimedia.org/wikipedia/commons/thumb/a/a9/Amazon_logo.svg/2560px-Amazon_logo.svg.png")]],
       [key  |-> <<"f", "a", "c", "e", "b", "o", "o", "k">>,
        data |-> [name         |-> T("Meta (formerly Facebook)"),
                  industry     |-> T("Technology, Social Media"),
                  location     |-> T("Menlo Park, CA"),
                  description  |-> T("Meta Platforms, Inc., doing business as Meta and formerly known as Facebook, Inc., is a multinational technology conglomerate that owns Facebook, Instagram, and WhatsApp, among other products and services."),
                  website      |-> T("https://about.meta.com"),
                  linkedin_url |-> T("https://www.linkedin.com/company/meta/"),
                  logo_url     |-> T("https://upload.wikimedia.org/wikipedia/commons/thumb/7/7b/Meta_Platforms_Inc._logo.svg/2560px-Meta_Platforms_Inc._logo.svg.png")]] >>

\* a generic record that leaves the unknown fields empty
GenericCompany_Blank(company_name) ==
    [name         |-> company_name,
     industry     |-> <<>>,
     location     |-> <<>>,
     description  |-> <<>>,
     website      |-> <<>>,
     linkedin_url |-> <<>>,
     logo_url     |-> <<>>]

\* the generic record returned when no table key matches
GenericCompany(company_name) ==
    [name         |-> company_name,
     industry     |-> T("Unknown"),
     location     |-> T("Unknown"),
     description  |-> T("No description available"),
     website      |-> <<>>,
     linkedin_url |-> <<>>,
     logo_url     |-> <<>>]

\* for key, company_data in companies.items():
\*     if key in company_lower or company_lower in key: return company_data
FallbackMatches(company_lower) ==
    {i \in 1..Len(CompanyTable) :
        \/ Contains(company_lower, CompanyTable[i].key)
        \/ Contains(CompanyTable[i].key, company_lower)}

\* LinkedInRapidAPIClient._get_fallback_company_info
_get_fallback_company_info(company_name) ==
    LET company_lower == Lower(company_name)
        hits == FallbackMatches(company_lower)
    IN  IF hits # {}
        THEN PyDict(PyStrRec(CompanyTable[CHOOSE i \in hits : \A j \in hits : i <= j].data))
        ELSE PyDict(PyStrRec(GenericCompany(company_name)))

(***************************************************************************)
(* Directory provider responses (requests.get): the call raises, or        *)
(* answers with a status code and a JSON body.                             *)
(***************************************************************************)
ProviderRaises == [kind |-> "exception"]

Http(status_code, body) == [kind |-> "http", status_code |-> status_code, body |-> body]

CompanyItem == [name |-> PyStr(T("Google LLC")), industry |-> PyStr(T("Internet"))]

CompanyResponses ==
    { ProviderRaises,
      Http(500, PyNone),
      Http(200, PyDict([message |-> PyStr(T("not found"))])),
      Http(200, PyDict([items |-> PyList(<<>>)])),
      Http(200, PyDict([items |-> PyList(<<PyDict(CompanyItem)>>)])) }

ItemAda ==
    [name      |-> PyStr(T("Ada")),
     title     |-> PyStr(T("Engineer")),
     expertise |-> PyList(<<PyStr(T("Python"))>>)]

\* the provider sends "expertise": null
ItemBob == [name |-> PyStr(T("Bob")), expertise |-> PyNone]

ItemCy ==
    [name      |-> PyStr(T("Cy")),
     title     |-> PyStr(T("Manager")),
     expertise |-> PyList(<<>>)]

PeopleResponses ==
    { ProviderRaises,
      Http(500, PyNone),
      Http(200, PyDict([message |-> PyStr(T("not found"))])),
      Http(200, PyDict([items |-> PyList(<<>>)])),
      Http(200, PyDict([items |-> PyList(<<PyDict(ItemAda)>>)])),
      Http(200, PyDict([items |-> PyList(<<PyDict(ItemBob), PyDict(ItemAda)>>)])),
      Http(200, PyDict([items |-> PyList(<<PyDict(ItemCy), PyDict(ItemAda)>>)])),
      Http(200, PyDict([items |-> PyList(<<PyStr(T("n/a"))>>)])) }

\* data and "items" in data and data["items"]
HasItems(data) ==
    /\ Truthy(data)
    /\ data.tag = "dict"
    /\ "items" \in DOMAIN data.v
    /\ Truthy(data.v["items"])

\* get_company_info as its docstring words it: None when nothing was found
get_company_info_OrNone(company_name, response) ==
    IF response.kind = "http" /\ response.status_code = 200 /\ HasItems(response.body)
    THEN PyDict([name |-> Get(response.body.v["items"].v[1], "name", PyStr(company_name))])
    ELSE PyNone

\* LinkedInRapidAPIClient.get_company_info
get_company_info(company_name, response) ==
    IF response.kind = "exception"
    THEN _get_fallback_company_info(company_name)
    ELSE IF response.status_code = 200
         THEN IF HasItems(response.body)
              THEN LET company_data == response.body.v["items"].v[1]
                   IN  PyDict([name         |-> Get(company_data, "name", PyStr(company_name)),
                               industry     |-> Get(company_data, "industry", PyStr(T("Unknown"))),
                               location     |-> Get(company_data, "location", PyStr(T("Unknown"))),
                               description  |-> Get(company_data, "description", PyStr(T("No description available"))),
                               website      |-> Get(company_data, "website", PyStr(<<>>)),
                               linkedin_url |-> Get(company_data, "linkedin_url", PyStr(<<>>)),
                               logo_url     |-> Get(company_data, "logo_url", PyStr(<<>>)),
                               employees    |-> Get(company_data, "employees", PyDict(<<>>))])
              ELSE _get_fallback_company_info(company_name)
         ELSE _get_fallback_company_info(company_name)

\* the profile dict search_people builds from one provider item
ProfileOf(profile_data) ==
    PyDict([name         |-> Get(profile_data, "name", PyStr(T("Unknown"))),
            title        |-> Get(profile_data, "title", PyStr(<<>>)),
            company      |-> Get(profile_data, "company", PyStr(<<>>)),
            location     |-> Get(profile_data, "location", PyStr(<<>>)),
            linkedin_url |-> Get(profile_data, "linkedin_url", PyStr(<<>>)),
            image_url    |-> Get(profile_data, "image_url", PyStr(<<>>)),
            expertise    |-> Get(profile_data, "expertise", PyList(<<>>))])

\* query_str of search_people: f"{query} at {company}" if company else query
SearchTerm(query, company) ==
    IF Truthy(company) THEN query \o T(" at ") \o company.v ELSE query

\* iterating data["items"] and calling profile_data.get on each element
\* raises unless it is a list of objects; the raise happens inside the try
ItemsRaise(items) ==
    \/ items.tag # "list"
    \/ \E i \in 1..Len(items.v) : items.v[i].tag # "dict"

\* a search_people that answers a failed search with made-up profiles
search_people_Synthetic(query, company, response) ==
    IF response.kind = "http" /\ response.status_code = 200 /\ HasItems(response.body)
       /\ ~ItemsRaise(response.body.v["items"])
    THEN LET items == response.body.v["items"].v
         IN  PyList([i \in 1..Len(items) |-> ProfileOf(items[i])])
    ELSE PyList(<<PyDict([name      |-> PyStr(T("Senior ") \o query \o T(" Professional")),
                          title     |-> PyStr(T("Senior ") \o query),
                          company   |-> company,
                          expertise |-> PyList(<<PyStr(T("Leadership"))>>)])>>)

\* LinkedInRapidAPIClient.search_people
search_people(query, company, response) ==
    IF response.kind = "exception"
    THEN PyList(<<>>)
    ELSE IF response.status_code = 200
         THEN IF HasItems(response.body)
              THEN IF ItemsRaise(response.body.v["items"])
                   THEN PyList(<<>>)
                   ELSE LET items == response.body.v["items"].v
                        IN  PyList([i \in 1..Len(items) |-> ProfileOf(items[i])])
              ELSE PyList(<<>>)
         ELSE PyList(<<>>)

\* LinkedInRapidAPIClient.__init__
ApiKey == PyStr(T("RAPIDAPI_KEY"))

NewClient ==
    [api_key  |-> ApiKey,
     base_url |-> T("https://linkedin-data-scraper.p.rapidapi.com"),
     headers  |-> [key  |-> ApiKey,
                   host |-> T("linkedin-data-scraper.p.rapidapi.com")]]

(***************************************************************************)
(* LLM service responses (openai_client.chat.completions.create followed   *)
(* by json.loads where the code parses): the call raises or times out, the *)
(* content is not parseable JSON, or it is a JSON value / a text.          *)
(***************************************************************************)
LLMRaises == [kind |-> "exception"]

LLMMalformed == [kind |-> "malformed"]

LLMJson(body) == [kind |-> "json", body |-> body]

LLMText(content) == [kind |-> "text", content |-> content]

\* a narrative that restates the sections of the prompt it was given
LLMEcho == [kind |-> "echo"]

RoleEngineer == PyStr(T("software engineer"))

AnalysisResponses ==
    { LLMRaises,
      LLMMalformed,
      LLMJson(PyDict([company      |-> PyNone,
                      roles        |-> PyList(<<RoleEngineer>>),
                      technologies |-> PyList(<<>>)])),
      LLMJson(PyDict([company      |-> PyStr(NameGoogle),
                      roles        |-> PyList(<<RoleEngineer>>),
                      technologies |-> PyList(<<PyStr(T("Python"))>>)])),
      LLMJson(PyDict([company |-> PyStr(NameZeta)])) }

InsightOne == PyStr(T("Most profiles list Python."))

InsightTwo == PyStr(T("Many moved from startups."))

InsightResponses ==
    { LLMRaises,
      LLMMalformed,
      LLMJson(PyList(<<InsightOne>>)),
      LLMJson(PyDict([insights |-> PyList(<<InsightOne, InsightTwo>>)])),
      LLMJson(PyDict([insight_1 |-> InsightOne])),
      LLMJson(PyDict([insights |-> PyNone])) }

SummaryResponses ==
    { LLMRaises, LLMText(T("# LinkedIn research summary")), LLMEcho }

EmptyQuery == <<>>

QueryGoogle == T("software engineers at ") \o NameGoogle

Queries == {EmptyQuery, QueryGoogle}

(***************************************************************************)
(* LinkedInResearchAgent                                                   *)
(***************************************************************************)
\* LinkedInResearchAgent.__init__ ; clock stands for datetime.now(): the
\* number of readings the run has taken so far
NewAgent ==
    [steps        |-> <<>>,
     profiles     |-> PyList(<<>>),
     insights     |-> PyList(<<>>),
     company_info |-> PyNone,
     summary      |-> PyNone,
     clock        |-> 0]

\* locals of research(): query, company_name, roles, search_query
NewFrame(query) ==
    [query        |-> query,
     company_name |-> PyNone,
     roles        |-> PyList(<<>>),
     search_query |-> PyStr(query)]

NoResult == [pending |-> TRUE]

\* LinkedInResearchAgent._add_step ; the handle of the new step is its index
_add_step(a, description, reasoning) ==
    [a EXCEPT !.steps = Append(@, NewStep(description, reasoning, a.clock)),
              !.clock = @ + 1]

\* step.complete(success, result) on the step with handle i
CompleteAt(a, i, success, res) ==
    [a EXCEPT !.steps[i] = complete(@, success, res, PyNone, a.clock),
              !.clock    = @ + 1]

\* [step.to_dict() for step in self.steps]
StepDicts(a) == [i \in 1..Len(a.steps) |-> to_dict(a.steps[i])]

ErrorDescription == T("Error in research process")

BroaderDescription == T("Attempting broader search")

SearchDescription == T("Searching for professionals")

InsightDescription == T("Analyzing professional profiles")

SummaryDescription == T("Creating research summary")

\* an except clause that begins the error step and never completes it
ResearchExcept_NoComplete(a, f, msg) ==
    LET a1 == _add_step(a, ErrorDescription, T("An error occurred: ") \o msg)
    IN  [a  |-> a1,
         f  |-> f,
         pc |-> "returned",
         r  |-> [query |-> f.query, steps |-> StepDicts(a1), error |-> msg]]

\* the except clause of research(): one error step, then the error result
ResearchExcept(a, f, msg) ==
    LET a1 == _add_step(a, ErrorDescription, T("An error occurred: ") \o msg)
        a2 == CompleteAt(a1, Len(a1.steps), FALSE,
                         PyDict([error_message |-> PyStr(msg)]))
    IN  [a  |-> a2,
         f  |-> f,
         pc |-> "returned",
         r  |-> [query |-> f.query, steps |-> StepDicts(a2), error |-> msg]]

\* the return statement that ends the try block of research()
ResearchReturn(a, f) ==
    [a  |-> a,
     f  |-> f,
     pc |-> "returned",
     r  |-> [query    |-> f.query,
             steps    |-> StepDicts(a),
             company  |-> a.company_info,
             profiles |-> a.profiles,
             insights |-> a.insights,
             summary  |-> a.summary]]

\* the segment ends at an outbound call: the run waits at position p
Await(a, f, p) == [a |-> a, f |-> f, pc |-> p, r |-> NoResult]

\* an _analyze_query whose basic analysis names no role
_analyze_query_NoRoles(query, response) ==
    IF response.kind = "json"
    THEN response.body
    ELSE PyDict([company      |-> PyNone,
                 roles        |-> PyList(<<>>),
                 technologies |-> PyList(<<>>)])

\* LinkedInResearchAgent._analyze_query, given the LLM's answer
_analyze_query(query, response) ==
    IF response.kind = "json"
    THEN response.body
    ELSE PyDict([company      |-> PyNone,
                 roles        |-> PyList(<<PyStr(query)>>),
                 technologies |-> PyList(<<>>)])

\* research(): Step 1 and the begin of Step 2, up to the first LLM call
BeginResearch(a, f) ==
    LET a1 == _add_step(a, T("Initializing LinkedIn research"),
                        T("Setting up the research process and preparing API connections."))
        a2 == CompleteAt(a1, Len(a1.steps), TRUE, PyNone)
        a3 == _add_step(a2, T("Analyzing query"),
                        T("Breaking down the query to identify companies, roles, and technologies."))
    IN  Await(a3, f, "analyze")

\* a Step 4 that always searches for the raw query
BeginSearch_RawQuery(a, f) ==
    LET a1 == _add_step(a, SearchDescription,
                        T("Finding relevant professionals based on query criteria."))
    IN  Await(a1, [f EXCEPT !.search_query = PyStr(f.query)], "search")

\* research(): begin of Step 4 and the choice of the search term
BeginSearch(a, f) ==
    LET a1 == _add_step(a, SearchDescription,
                        T("Finding relevant professionals based on query criteria."))
        search_query == IF Truthy(f.roles) THEN f.roles.v[1] ELSE PyStr(f.query)
    IN  Await(a1, [f EXCEPT !.search_query = search_query], "search")

\* an end of Step 2 that skips Step 3 whatever the analysis extracted
AfterAnalysis_NoLookup(a, f, query_analysis) ==
    LET company_name == Get(query_analysis, "company", PyNone)
        roles        == Get(query_analysis, "roles", PyList(<<>>))
        technologies == Get(query_analysis, "technologies", PyList(<<>>))
        a1 == CompleteAt(a, Len(a.steps), TRUE,
                         PyDict([company      |-> company_name,
                                 roles        |-> roles,
                                 technologies |-> technologies]))
    IN  BeginSearch(a1, [f EXCEPT !.company_name = company_name, !.roles = roles])

\* research(): end of Step 2 and the branch of Step 3
AfterAnalysis(a, f, query_analysis) ==
    LET company_name == Get(query_analysis, "company", PyNone)
        roles        == Get(query_analysis, "roles", PyList(<<>>))
        technologies == Get(query_analysis, "technologies", PyList(<<>>))
        a1 == CompleteAt(a, Len(a.steps), TRUE,
                         PyDict([company      |-> company_name,
                                 roles        |-> roles,
                                 technologies |-> technologies]))
        f1 == [f EXCEPT !.company_name = company_name, !.roles = roles]
    IN  IF Truthy(company_name)
        THEN Await(_add_step(a1, T("Researching company: ") \o company_name.v,
                             T("Gathering information about ") \o company_name.v
                                 \o T(" from LinkedIn.")),
                   f1, "company")
        ELSE BeginSearch(a1, f1)

\* research(): end of Step 3
AfterCompany(a, f, company_info) ==
    LET a1 == IF Truthy(company_info)
              THEN [CompleteAt(a, Len(a.steps), TRUE, company_info)
                       EXCEPT !.company_info = company_info]
              ELSE CompleteAt(a, Len(a.steps), FALSE,
                              PyDict([error |-> PyStr(T("Could not find verified information for ")
                                                      \o f.company_name.v)]))
    IN  BeginSearch(a1, f)

\* the arguments of the primary search_people call
PrimarySearchArgs(f) ==
    [query   |-> f.search_query,
     company |-> IF Truthy(f.company_name) THEN f.company_name ELSE PyNone]

\* a fallback call that repeats the arguments of the primary call
FallbackSearchArgs_Primary(f) == PrimarySearchArgs(f)

\* the arguments of the fallback call: search_people(query)
FallbackSearchArgs(f) == [query |-> PyStr(f.query), company |-> PyNone]

\* the log entry of one search_people call
SearchCall(args, profiles) ==
    [op          |-> "search_people",
     query       |-> args.query,
     company     |-> args.company,
     search_term |-> SearchTerm(args.query.v, args.company),
     returned    |-> profiles]

JoinError == T("can only join an iterable")

LenError == T("object of type 'NoneType' has no len()")

ProfileLimit == 5

\* the first n elements of a sequence: seq[:n]
Take(seq, n) == SubSeq(seq, 1, IF Len(seq) < n THEN Len(seq) ELSE n)

\* the per-profile f-strings of _generate_insights and _create_summary raise
\* when ', '.join(profile.get('expertise', [])) does
FormatRaises(profile_seq) ==
    \E i \in 1..Len(profile_seq) :
        JoinRaises(Get(profile_seq[i], "expertise", PyList(<<>>)))

\* text of an f-string field: str values print their text
Shown(x) == IF x.tag = "str" THEN x.v ELSE T("<" \o x.tag \o ">")

RECURSIVE JoinTexts(_, _)
\* sep.join(texts)
JoinTexts(texts, sep) ==
    IF texts = <<>> THEN <<>>
    ELSE IF Len(texts) = 1 THEN texts[1]
    ELSE texts[1] \o sep \o JoinTexts(Tail(texts), sep)

\* the numbered block _create_summary writes for one profile
ProfileText(i, profile) ==
    T(ToString(i) \o ". ") \o Shown(Get(profile, "name", PyStr(T("Unknown"))))
    \o T("Title: ") \o Shown(Get(profile, "title", PyStr(T("N/A"))))
    \o T("Company: ") \o Shown(Get(profile, "company", PyStr(T("N/A"))))
    \o T("Location: ") \o Shown(Get(profile, "location", PyStr(T("N/A"))))
    \o T("Expertise: ")
    \o LET e == Get(profile, "expertise", PyList(<<>>))
       IN  IF e.tag = "list"
           THEN JoinTexts([k \in 1..Len(e.v) |-> Shown(e.v[k])], T(", "))
           ELSE Shown(e)

\* the prompt _create_summary sends
SummaryPrompt(a, query) ==
    LET shown == Take(a.profiles.v, ProfileLimit)
        profiles_text == [i \in 1..Len(shown) |-> ProfileText(i, shown[i])]
        insights_text ==
            IF a.insights.tag = "list"
            THEN JoinTexts([i \in 1..Len(a.insights.v) |-> T("- ") \o Shown(a.insights.v[i])],
                           T("\n"))
            ELSE T("- ") \o Shown(a.insights)
    IN  T("Create a comprehensive LinkedIn research summary based on the following:")
        \o T("Original Query:") \o query
        \o (IF Truthy(a.company_info)
            THEN T("Company Information:")
                 \o T("Name: ") \o Shown(Get(a.company_info, "name", PyStr(T("N/A"))))
                 \o T("Industry: ") \o Shown(Get(a.company_info, "industry", PyStr(T("N/A"))))
                 \o T("Location: ") \o Shown(Get(a.company_info, "location", PyStr(T("N/A"))))
                 \o T("Description: ") \o Shown(Get(a.company_info, "description", PyStr(T("N/A"))))
            ELSE <<>>)
        \o T("Professionals Found:")
        \o (IF profiles_text # <<>>
            THEN JoinTexts(profiles_text, T("\n"))
            ELSE <<"No profiles found", ".">>)
        \o T("Insights:")
        \o (IF insights_text # <<>>
            THEN insights_text
            ELSE <<"No insights available", ".">>)
        \o T("Create a detailed research summary in Markdown format")

SummaryFallback == T("Unable to generate a summary due to an error.")

\* LinkedInResearchAgent._create_summary, given the LLM's answer
_create_summary(a, query, response) ==
    CASE response.kind = "text" -> PyStr(response.content)
      [] response.kind = "echo" -> PyStr(SummaryPrompt(a, query))
      [] OTHER                  -> PyStr(SummaryFallback)

InsightFallback == PyStr(T("Unable to generate insights due to an error."))

\* list(d.values()) of a one-key dict
DictValues(d) == PyList([i \in 1..Cardinality(DOMAIN d.v) |->
                            d.v[CHOOSE k \in DOMAIN d.v : TRUE]])

\* a _generate_insights without the local fallback: a failed call yields None
_generate_insights_NoFallback(response) ==
    IF response.kind = "json"
    THEN LET insights_data == response.body
         IN  IF insights_data.tag = "list" THEN insights_data
             ELSE IF insights_data.tag = "dict" /\ "insights" \in DOMAIN insights_data.v
                  THEN insights_data.v["insights"]
                  ELSE IF insights_data.tag = "dict" THEN DictValues(insights_data)
                       ELSE PyList(<<>>)
    ELSE PyNone

\* LinkedInResearchAgent._generate_insights, given the LLM's answer
_generate_insights(response) ==
    IF response.kind = "json"
    THEN LET insights_data == response.body
         IN  IF insights_data.tag = "list" THEN insights_data
             ELSE IF insights_data.tag = "dict" /\ "insights" \in DOMAIN insights_data.v
                  THEN insights_data.v["insights"]
                  ELSE IF insights_data.tag = "dict" THEN DictValues(insights_data)
                       ELSE PyList(<<>>)
    ELSE PyList(<<InsightFallback>>)

\* research(): begin of Step 6 and the prompt formatting of _create_summary
BeginSummary(a, f) ==
    LET a1 == _add_step(a, SummaryDescription,
                        T("Synthesizing findings into a comprehensive research summary."))
    IN  IF FormatRaises(Take(a1.profiles.v, ProfileLimit))
        THEN ResearchExcept(a1, f, JoinError)
        ELSE Await(a1, f, "summary")

\* a Step 5 that runs whether or not a profile was found
ShouldGenerateInsights_Always(a) == TRUE

\* the test of Step 5: if self.profiles
ShouldGenerateInsights(a) == Truthy(a.profiles)

\* research(): begin of Step 5 and the prompt formatting of _generate_insights
BeginInsights(a, f) ==
    IF ShouldGenerateInsights(a)
    THEN LET a1 == _add_step(a, InsightDescription,
                             T("Examining profiles to identify patterns and insights."))
         IN  IF \/ FormatRaises(a1.profiles.v)
                \/ (Truthy(f.roles) /\ JoinRaises(f.roles))
             THEN ResearchExcept(a1, f, JoinError)
             ELSE Await(a1, f, "insights")
    ELSE BeginSummary(a, f)

\* a search stage that retries whatever the primary search returned
NeedsFallback_Always(profiles) == TRUE

\* the test that sends research() into the broader search: not profiles
NeedsFallback(profiles) == ~Truthy(profiles)

\* research(): end of Step 4 after the primary search
AfterSearch(a, f, profiles) ==
    IF ~NeedsFallback(profiles)
    THEN BeginInsights(
            [CompleteAt(a, Len(a.steps), TRUE,
                        PyDict([profiles_found |-> PyNum(PyLen(profiles))]))
                EXCEPT !.profiles = profiles],
            f)
    ELSE Await(_add_step(CompleteAt(a, Len(a.steps), FALSE,
                                    PyDict([error |-> PyStr(T("No matching profiles found"))])),
                         BroaderDescription,
                         T("Initial search returned no results. Trying with broader criteria.")),
               f, "fallback")

\* an end of Step 4 that gives up when the fallback search found nobody
AfterFallback_Raises(a, f, fallback_profiles) ==
    IF Truthy(fallback_profiles)
    THEN BeginInsights(
            [CompleteAt(a, Len(a.steps), TRUE,
                        PyDict([profiles_found |-> PyNum(PyLen(fallback_profiles))]))
                EXCEPT !.profiles = fallback_profiles],
            f)
    ELSE ResearchExcept(a, f, T("No profiles found in fallback search"))

\* an end of Step 4 that repeats the fallback search until somebody is found
AfterFallback_Retry(a, f, fallback_profiles) ==
    IF Truthy(fallback_profiles)
    THEN BeginInsights(
            [CompleteAt(a, Len(a.steps), TRUE,
                        PyDict([profiles_found |-> PyNum(PyLen(fallback_profiles))]))
                EXCEPT !.profiles = fallback_profiles],
            f)
    ELSE Await(CompleteAt(a, Len(a.steps), FALSE,
                          PyDict([error |-> PyStr(T("No profiles found in fallback search"))])),
               f, "fallback")

\* an end of Step 4 that counts the fallback profiles and drops them
AfterFallback_Discard(a, f, fallback_profiles) ==
    IF Truthy(fallback_profiles)
    THEN BeginInsights(
            CompleteAt(a, Len(a.steps), TRUE,
                       PyDict([profiles_found |-> PyNum(PyLen(fallback_profiles))])),
            f)
    ELSE BeginInsights(
            CompleteAt(a, Len(a.steps), FALSE,
                       PyDict([error |-> PyStr(T("No profiles found in fallback search"))])),
            f)

\* research(): end of Step 4 after the fallback search
AfterFallback(a, f, fallback_profiles) ==
    IF Truthy(fallback_profiles)
    THEN BeginInsights(
            [CompleteAt(a, Len(a.steps), TRUE,
                        PyDict([profiles_found |-> PyNum(PyLen(fallback_profiles))]))
                EXCEPT !.profiles = fallback_profiles],
            f)
    ELSE BeginInsights(
            CompleteAt(a, Len(a.steps), FALSE,
                       PyDict([error |-> PyStr(T("No profiles found in fallback search"))])),
            f)

\* research(): end of Step 5
AfterInsights(a, f, insights) ==
    IF LenRaises(insights)
    THEN ResearchExcept(a, f, LenError)
    ELSE BeginSummary(
            [CompleteAt(a, Len(a.steps), TRUE,
                        PyDict([insights_generated |-> PyNum(PyLen(insights))]))
                EXCEPT !.insights = insights],
            f)

\* research(): end of Step 6 and the result
AfterSummary(a, f, summary) ==
    ResearchReturn([CompleteAt(a, Len(a.steps), TRUE, PyNone) EXCEPT !.summary = summary], f)

(***************************************************************************)
(* app.py: persistence of a run                                            *)
(***************************************************************************)
RECURSIVE JsonDumps(_), JsonMembers(_, _), JsonItems(_)
\* json.dumps(x); the members of an object are written in one fixed order
JsonDumps(x) ==
    CASE x.tag = "none" -> T("null")
      [] x.tag = "str"  -> T("\"") \o x.v \o T("\"")
      [] x.tag = "num"  -> T(ToString(x.v))
      [] x.tag = "list" -> T("[") \o JsonItems(x.v) \o T("]")
      [] x.tag = "dict" -> T("{") \o JsonMembers(x.v, DOMAIN x.v) \o T("}")

JsonItems(items) ==
    IF items = <<>> THEN <<>>
    ELSE IF Len(items) = 1 THEN JsonDumps(items[1])
    ELSE JsonDumps(items[1]) \o T(", ") \o JsonItems(Tail(items))

JsonMembers(d, keys) ==
    IF keys = {} THEN <<>>
    ELSE LET k == CHOOSE k \in keys : TRUE
             member == T("\"" \o k \o "\": ") \o JsonDumps(d[k])
         IN  IF keys = {k} THEN member
             ELSE member \o T(", ") \o JsonMembers(d, keys \ {k})

\* step_data.get(key, default) on a serialized step
StepGet(step_data, key, default) ==
    IF key \in DOMAIN step_data THEN step_data[key] ELSE default

\* a step row that stores str(result) for every kind of result
StepRow_Str(research_id, step_data) ==
    [research_id |-> research_id,
     type        |-> StepGet(step_data, "type", "analysis"),
     description |-> StepGet(step_data, "description", <<>>),
     reasoning   |-> StepGet(step_data, "reasoning", <<>>),
     status      |-> StepGet(step_data, "status", "completed"),
     confidence  |-> StepGet(step_data, "confidence", PyNone),
     duration    |-> StepGet(step_data, "duration", PyNone),
     result      |-> LET res == StepGet(step_data, "result", PyNone)
                     IN  IF res.tag # "none" THEN PyStr(Shown(res)) ELSE PyNone]

\* the ResearchStep row run_research_task builds from one serialized step
StepRow(research_id, step_data) ==
    [research_id |-> research_id,
     type        |-> StepGet(step_data, "type", "analysis"),
     description |-> StepGet(step_data, "description", <<>>),
     reasoning   |-> StepGet(step_data, "reasoning", <<>>),
     status      |-> StepGet(step_data, "status", "completed"),
     confidence  |-> StepGet(step_data, "confidence", PyNone),
     duration    |-> StepGet(step_data, "duration", PyNone),
     result      |-> LET res == StepGet(step_data, "result", PyNone)
                     IN  IF res.tag # "none"
                         THEN IF res.tag \in {"dict", "list"}
                              THEN PyStr(JsonDumps(res))
                              ELSE PyStr(Shown(res))
                         ELSE PyNone]

\* the LinkedInProfile row built from one profile dict
ProfileRow(research_id, profile_data) ==
    [research_id  |-> research_id,
     name         |-> Get(profile_data, "name", PyStr(<<>>)),
     title        |-> Get(profile_data, "title", PyStr(<<>>)),
     company      |-> Get(profile_data, "company", PyStr(<<>>)),
     location     |-> Get(profile_data, "location", PyStr(<<>>)),
     linkedin_url |-> Get(profile_data, "linkedin_url", PyStr(<<>>)),
     image_url    |-> Get(profile_data, "image_url", PyStr(<<>>)),
     expertise    |-> IF "expertise" \in DOMAIN profile_data.v
                         /\ Truthy(profile_data.v["expertise"])
                      THEN PyStr(JsonDumps(profile_data.v["expertise"]))
                      ELSE PyNone]

\* the Insight row built from one insight
InsightRow(research_id, insight) == [research_id |-> research_id, text |-> insight]

NoRows == [steps |-> <<>>, profiles |-> <<>>, insights |-> <<>>]

\* results.get(key, []) for the collections of a result
ResultList(results, key) == IF key \in DOMAIN results THEN results[key] ELSE PyList(<<>>)

\* the rows run_research_task adds to the session for a successful result
RowsOf(research_id, results) ==
    LET steps    == IF "steps" \in DOMAIN results THEN results.steps ELSE <<>>
        profiles == ResultList(results, "profiles").v
        insights == ResultList(results, "insights").v
    IN  [steps    |-> [i \in 1..Len(steps) |-> StepRow(research_id, steps[i])],
         profiles |-> [i \in 1..Len(profiles) |-> ProfileRow(research_id, profiles[i])],
         insights |-> [i \in 1..Len(insights) |-> InsightRow(research_id, insights[i])]]

FailurePrefix == T("Research failed: ")

DbError == T("database error")

\* start_research_task: the new ResearchQuery row
NewRecord(query) == [query |-> query, status |-> "pending", summary |-> PyNone]

\* an except clause that marks every unfinished record failed
RunnerExcept_AllRecords(d, research_id, msg, handler_ok) ==
    IF handler_ok
    THEN [i \in DOMAIN d |->
            IF d[i].status \in {"pending", "in_progress"}
            THEN [d[i] EXCEPT !.status = "failed", !.summary = PyStr(FailurePrefix \o msg)]
            ELSE d[i]]
    ELSE d

\* an except clause that logs the error and leaves the record as it is
RunnerExcept_LogOnly(d, research_id, msg, handler_ok) == d

\* the except clause of run_research_task; handler_ok tells whether its own
\* db.session.get and commit succeed
RunnerExcept(d, research_id, msg, handler_ok) ==
    IF handler_ok /\ research_id \in DOMAIN d
    THEN [d EXCEPT ![research_id].status  = "failed",
                   ![research_id].summary = PyStr(FailurePrefix \o msg)]
    ELSE d

\* run_research_task, "Process results": the record after the error branch
FailedRecord(rec, results) ==
    [rec EXCEPT !.status = "failed", !.summary = PyStr(FailurePrefix \o results.error)]

\* run_research_task, "Update research": the record after a successful run
CompletedRecord(rec, results) ==
    [rec EXCEPT !.status  = "completed",
                !.summary = IF "summary" \in DOMAIN results
                            THEN results.summary ELSE PyStr(<<>>)]

(***************************************************************************)
(* State machine                                                           *)
(***************************************************************************)
Init ==
    /\ db = <<>>
    /\ rows = <<>>
    /\ nextId = 1
    /\ pc = [i \in Ids |-> "idle"]
    /\ agent = [i \in Ids |-> NewAgent]
    /\ frame = [i \in Ids |-> NewFrame(EmptyQuery)]
    /\ calls = [i \in Ids |-> <<>>]
    /\ result = [i \in Ids |-> NoResult]
    /\ client = NewClient
    /\ lookups = <<>>

\* the state a segment of research() leaves behind
Continue(id, k) ==
    /\ agent' = [agent EXCEPT ![id] = k.a]
    /\ frame' = [frame EXCEPT ![id] = k.f]
    /\ pc' = [pc EXCEPT ![id] = k.pc]
    /\ result' = [result EXCEPT ![id] = k.r]

\* asyncio.create_task(coro) needs the running event loop of the calling
\* thread: with one, the task is scheduled; without one it raises RuntimeError
\* and no task exists
create_task(loop_running) == IF loop_running THEN "scheduled" ELSE "unscheduled"

\* start_research_task(query), then asyncio.create_task(run_research_task(id))
\* as the research view does; loop_running tells whether the thread that
\* serves the request has a running event loop
Submit(query, loop_running) ==
    /\ nextId \in DOMAIN pc
    /\ db' = db @@ (nextId :> NewRecord(query))
    /\ rows' = rows @@ (nextId :> NoRows)
    /\ pc' = [pc EXCEPT ![nextId] = create_task(loop_running)]
    /\ nextId' = nextId + 1
    /\ UNCHANGED <<agent, frame, calls, result>>
    /\ UNCHANGED clientVars

\* The coroutines hold no suspending await (the LLM and HTTP clients are the
\* synchronous ones), so a run that has started keeps the event loop until
\* run_research_task returns: no other run is between its first and last step.
LoopFree == \A other \in DOMAIN pc : pc[other] \in {"idle", "scheduled", "unscheduled", "done"}

\* a runner that does not test the record it read and starts the pipeline
RunnerBegin_NoLookup(id, outcome, handler_ok) ==
    /\ pc[id] = "scheduled"
    /\ IF outcome = "get_raises"
       THEN /\ db' = RunnerExcept(db, id, DbError, handler_ok)
            /\ pc' = [pc EXCEPT ![id] = "done"]
            /\ UNCHANGED <<agent, frame, result>>
       ELSE IF id \in DOMAIN db /\ outcome = "commit_raises"
       THEN /\ db' = RunnerExcept(db, id, DbError, handler_ok)
            /\ pc' = [pc EXCEPT ![id] = "done"]
            /\ UNCHANGED <<agent, frame, result>>
       ELSE /\ db' = IF id \in DOMAIN db THEN [db EXCEPT ![id].status = "in_progress"] ELSE db
            /\ Continue(id, BeginResearch(NewAgent,
                                          NewFrame(IF id \in DOMAIN db THEN db[id].query
                                                   ELSE EmptyQuery)))
    /\ UNCHANGED <<rows, nextId, calls>>
    /\ UNCHANGED clientVars

\* run_research_task up to the first outbound call of research()
RunnerBegin(id, outcome, handler_ok) ==
    /\ pc[id] = "scheduled"
    /\ IF outcome = "get_raises"
       THEN /\ db' = RunnerExcept(db, id, DbError, handler_ok)
            /\ pc' = [pc EXCEPT ![id] = "done"]
            /\ UNCHANGED <<agent, frame, result>>
       ELSE IF id \notin DOMAIN db
       THEN /\ pc' = [pc EXCEPT ![id] = "done"]
            /\ UNCHANGED <<db, agent, frame, result>>
       ELSE IF outcome = "commit_raises"
       THEN /\ db' = RunnerExcept(db, id, DbError, handler_ok)
            /\ pc' = [pc EXCEPT ![id] = "done"]
            /\ UNCHANGED <<agent, frame, result>>
       ELSE /\ db' = [db EXCEPT ![id].status = "in_progress"]
            /\ Continue(id, BeginResearch(NewAgent, NewFrame(db[id].query)))
    /\ UNCHANGED <<rows, nextId, calls>>
    /\ UNCHANGED clientVars

\* the event loop starts the task of run_research_task(id) when no other
\* run holds the loop
RunnerStart(id, outcome, handler_ok) ==
    /\ LoopFree
    /\ RunnerBegin(id, outcome, handler_ok)

\* the analysis LLM call returns
AnalyzeReturn(id, response) ==
    /\ pc[id] = "analyze"
    /\ calls' = [calls EXCEPT ![id] = Append(@, [op |-> "llm", purpose |-> "analyze"])]
    /\ Continue(id, AfterAnalysis(agent[id], frame[id],
                                  _analyze_query(frame[id].query, response)))
    /\ UNCHANGED <<db, rows, nextId>>
    /\ UNCHANGED clientVars

\* get_company_info returns
CompanyReturn(id, response) ==
    /\ pc[id] = "company"
    /\ LET company_info == get_company_info(frame[id].company_name.v, response)
       IN  /\ calls' = [calls EXCEPT ![id] =
                           Append(@, [op           |-> "get_company_info",
                                      company_name |-> frame[id].company_name,
                                      returned     |-> company_info])]
           /\ Continue(id, AfterCompany(agent[id], frame[id], company_info))
    /\ UNCHANGED <<db, rows, nextId>>
    /\ UNCHANGED clientVars

\* the primary search_people call returns
SearchReturn(id, response) ==
    /\ pc[id] = "search"
    /\ LET args == PrimarySearchArgs(frame[id])
           profiles == search_people(args.query.v, args.company, response)
       IN  /\ calls' = [calls EXCEPT ![id] = Append(@, SearchCall(args, profiles))]
           /\ Continue(id, AfterSearch(agent[id], frame[id], profiles))
    /\ UNCHANGED <<db, rows, nextId>>
    /\ UNCHANGED clientVars

\* the fallback search_people call returns
FallbackReturn(id, response) ==
    /\ pc[id] = "fallback"
    /\ LET args == FallbackSearchArgs(frame[id])
           profiles == search_people(args.query.v, args.company, response)
       IN  /\ calls' = [calls EXCEPT ![id] = Append(@, SearchCall(args, profiles))]
           /\ Continue(id, AfterFallback(agent[id], frame[id], profiles))
    /\ UNCHANGED <<db, rows, nextId>>
    /\ UNCHANGED clientVars

\* the insights LLM call returns
InsightsReturn(id, response) ==
    /\ pc[id] = "insights"
    /\ calls' = [calls EXCEPT ![id] = Append(@, [op |-> "llm", purpose |-> "insights"])]
    /\ Continue(id, AfterInsights(agent[id], frame[id], _generate_insights(response)))
    /\ UNCHANGED <<db, rows, nextId>>
    /\ UNCHANGED clientVars

\* the summary LLM call returns
SummaryReturn(id, response) ==
    /\ pc[id] = "summary"
    /\ calls' = [calls EXCEPT ![id] = Append(@, [op |-> "llm", purpose |-> "summary"])]
    /\ Continue(id, AfterSummary(agent[id], frame[id],
                                 _create_summary(agent[id], frame[id].query, response)))
    /\ UNCHANGED <<db, rows, nextId>>
    /\ UNCHANGED clientVars

\* a runner that commits each row as it adds it, before the final commit
RunnerFinish_RowByRow(id, commit_ok, handler_ok) ==
    /\ pc[id] = "returned"
    /\ LET results == result[id]
       IN  IF "error" \in DOMAIN results
           THEN /\ db' = IF commit_ok THEN [db EXCEPT ![id] = FailedRecord(@, results)]
                         ELSE RunnerExcept(db, id, DbError, handler_ok)
                /\ rows' = rows
           ELSE /\ db' = IF commit_ok THEN [db EXCEPT ![id] = CompletedRecord(@, results)]
                         ELSE RunnerExcept(db, id, DbError, handler_ok)
                /\ rows' = [rows EXCEPT ![id] = RowsOf(id, results)]
    /\ pc' = [pc EXCEPT ![id] = "done"]
    /\ agent' = [agent EXCEPT ![id] = NewAgent]
    /\ frame' = [frame EXCEPT ![id] = NewFrame(EmptyQuery)]
    /\ calls' = [calls EXCEPT ![id] = <<>>]
    /\ result' = [result EXCEPT ![id] = NoResult]
    /\ UNCHANGED nextId
    /\ UNCHANGED clientVars

\* a runner that commits the status completed before it adds the rows
RunnerFinish_StatusFirst(id, commit_ok, handler_ok) ==
    /\ pc[id] = "returned"
    /\ LET results == result[id]
       IN  IF "error" \in DOMAIN results
           THEN /\ db' = IF commit_ok THEN [db EXCEPT ![id] = FailedRecord(@, results)]
                         ELSE RunnerExcept(db, id, DbError, handler_ok)
                /\ rows' = rows
           ELSE /\ db' = IF commit_ok THEN [db EXCEPT ![id] = CompletedRecord(@, results)]
                         ELSE RunnerExcept([db EXCEPT ![id] = CompletedRecord(@, results)],
                                           id, DbError, handler_ok)
                /\ rows' = IF commit_ok THEN [rows EXCEPT ![id] = RowsOf(id, results)]
                           ELSE rows
    /\ pc' = [pc EXCEPT ![id] = "done"]
    /\ agent' = [agent EXCEPT ![id] = NewAgent]
    /\ frame' = [frame EXCEPT ![id] = NewFrame(EmptyQuery)]
    /\ calls' = [calls EXCEPT ![id] = <<>>]
    /\ result' = [result EXCEPT ![id] = NoResult]
    /\ UNCHANGED nextId
    /\ UNCHANGED clientVars

\* run_research_task after research_linkedin returned: "Process results",
\* the writes, the commit and, when the commit raises, the except clause;
\* the agent and the result are local to the call and are gone when it returns
RunnerFinish(id, commit_ok, handler_ok) ==
    /\ pc[id] = "returned"
    /\ LET results == result[id]
       IN  IF ~commit_ok
           THEN /\ db' = RunnerExcept(db, id, DbError, handler_ok)
                /\ rows' = rows
           ELSE IF "error" \in DOMAIN results
           THEN /\ db' = [db EXCEPT ![id] = FailedRecord(@, results)]
                /\ rows' = rows
           ELSE /\ db' = [db EXCEPT ![id] = CompletedRecord(@, results)]
                /\ rows' = [rows EXCEPT ![id] = RowsOf(id, results)]
    /\ pc' = [pc EXCEPT ![id] = "done"]
    /\ agent' = [agent EXCEPT ![id] = NewAgent]
    /\ frame' = [frame EXCEPT ![id] = NewFrame(EmptyQuery)]
    /\ calls' = [calls EXCEPT ![id] = <<>>]
    /\ result' = [result EXCEPT ![id] = NoResult]
    /\ UNCHANGED nextId
    /\ UNCHANGED clientVars

Next ==
    \/ \E query \in Queries, loop_running \in BOOLEAN : Submit(query, loop_running)
    \/ \E id \in Ids, outcome \in {"ok", "get_raises", "commit_raises"}, handler_ok \in BOOLEAN :
          RunnerStart(id, outcome, handler_ok)
    \/ \E id \in Ids, response \in AnalysisResponses : AnalyzeReturn(id, response)
    \/ \E id \in Ids, response \in CompanyResponses : CompanyReturn(id, response)
    \/ \E id \in Ids, response \in PeopleResponses : SearchReturn(id, response)
    \/ \E id \in Ids, response \in PeopleResponses : FallbackReturn(id, response)
    \/ \E id \in Ids, response \in InsightResponses : InsightsReturn(id, response)
    \/ \E id \in Ids, response \in SummaryResponses : SummaryReturn(id, response)
    \/ \E id \in Ids, commit_ok \in BOOLEAN, handler_ok \in BOOLEAN :
          RunnerFinish(id, commit_ok, handler_ok)

Spec == Init /\ [][Next]_vars

\* the steps of the task run_research_task(id)
RunStep(id) ==
    \/ \E outcome \in {"ok", "get_raises", "commit_raises"}, handler_ok \in BOOLEAN :
          RunnerStart(id, outcome, handler_ok)
    \/ \E response \in AnalysisResponses : AnalyzeReturn(id, response)
    \/ \E response \in CompanyResponses : CompanyReturn(id, response)
    \/ \E response \in PeopleResponses : SearchReturn(id, response)
    \/ \E response \in PeopleResponses : FallbackReturn(id, response)
    \/ \E response \in InsightResponses : InsightsReturn(id, response)
    \/ \E response \in SummaryResponses : SummaryReturn(id, response)
    \/ \E commit_ok \in BOOLEAN, handler_ok \in BOOLEAN : RunnerFinish(id, commit_ok, handler_ok)

\* The event loop runs every task it holds, and every outbound call of a run
\* returns or raises: a task that can take a step takes it.
FairSpec == Spec /\ \A id \in Ids : WF_vars(RunStep(id))

(***************************************************************************)
(* Several runs in flight: every await of run_research_task and research() *)
(* taken as a point where the event loop may switch to another task.       *)
(***************************************************************************)
PairIds == 1..(MaxQueries + 1)

PairAnalysisResponses ==
    { LLMJson(PyDict([company |-> PyStr(NameGoogle), roles |-> PyList(<<RoleEngineer>>)])) }

PairPeopleResponses ==
    { ProviderRaises,
      Http(200, PyDict([items |-> PyList(<<PyDict(ItemAda)>>)])),
      Http(200, PyDict([items |-> PyList(<<PyDict(ItemBob), PyDict(ItemAda)>>)])) }

PairInsightResponses == {LLMJson(PyList(<<InsightOne>>))}

PairSummaryResponses == {LLMText(T("# LinkedIn research summary"))}

PairInit ==
    /\ db = <<>>
    /\ rows = <<>>
    /\ nextId = 1
    /\ pc = [i \in PairIds |-> "idle"]
    /\ agent = [i \in PairIds |-> NewAgent]
    /\ frame = [i \in PairIds |-> NewFrame(EmptyQuery)]
    /\ calls = [i \in PairIds |-> <<>>]
    /\ result = [i \in PairIds |-> NoResult]
    /\ client = NewClient
    /\ lookups = <<>>

PairNext ==
    \/ \E query \in Queries, loop_running \in BOOLEAN : Submit(query, loop_running)
    \/ \E id \in PairIds, outcome \in {"ok", "get_raises", "commit_raises"}, handler_ok \in BOOLEAN :
          RunnerBegin(id, outcome, handler_ok)
    \/ \E id \in PairIds, response \in PairAnalysisResponses : AnalyzeReturn(id, response)
    \/ \E id \in PairIds : CompanyReturn(id, ProviderRaises)
    \/ \E id \in PairIds, response \in PairPeopleResponses : SearchReturn(id, response)
    \/ \E id \in PairIds, response \in PairPeopleResponses : FallbackReturn(id, response)
    \/ \E id \in PairIds, response \in PairInsightResponses : InsightsReturn(id, response)
    \/ \E id \in PairIds, response \in PairSummaryResponses : SummaryReturn(id, response)
    \/ \E id \in PairIds, commit_ok \in BOOLEAN, handler_ok \in BOOLEAN :
          RunnerFinish(id, commit_ok, handler_ok)

PairSpec == PairInit /\ [][PairNext]_vars

(***************************************************************************)
(* run_research_task called for ids that have no record                    *)
(***************************************************************************)
\* run_research_task(research_id) is called for an id that start_research_task
\* has not handed out: the task exists, the table has no row with that id
DirectCall(id) ==
    /\ id \notin DOMAIN db
    /\ pc[id] = "idle"
    /\ pc' = [pc EXCEPT ![id] = "scheduled"]
    /\ UNCHANGED <<db, rows, nextId, agent, frame, calls, result>>
    /\ UNCHANGED clientVars

\* the application and direct calls of the runner; a record is not created
\* under an id for which a directly called task is still waiting
DirectNext ==
    \/ \E query \in Queries, loop_running \in BOOLEAN :
          /\ nextId \in DOMAIN pc
          /\ pc[nextId] # "scheduled"
          /\ Submit(query, loop_running)
    \/ \E id \in PairIds : DirectCall(id)
    \/ \E id \in PairIds, outcome \in {"ok", "get_raises", "commit_raises"}, handler_ok \in BOOLEAN :
          RunnerStart(id, outcome, handler_ok)
    \/ \E id \in PairIds, response \in PairAnalysisResponses : AnalyzeReturn(id, response)
    \/ \E id \in PairIds : CompanyReturn(id, ProviderRaises)
    \/ \E id \in PairIds, response \in PairPeopleResponses : SearchReturn(id, response)
    \/ \E id \in PairIds, response \in PairPeopleResponses : FallbackReturn(id, response)
    \/ \E id \in PairIds, response \in PairInsightResponses : InsightsReturn(id, response)
    \/ \E id \in PairIds, response \in PairSummaryResponses : SummaryReturn(id, response)
    \/ \E id \in PairIds, commit_ok \in BOOLEAN, handler_ok \in BOOLEAN :
          RunnerFinish(id, commit_ok, handler_ok)

DirectSpec == PairInit /\ [][DirectNext]_vars

(***************************************************************************)
(* One LinkedInRapidAPIClient driven directly                              *)
(***************************************************************************)
CompanyNames == {NameGoogle, NameZeta, NameApp, NameGoogleCloud}

SearchQueries == {EmptyQuery, RoleEngineer.v}

SearchCompanies == {PyNone, PyStr(NameGoogle)}

\* client.get_company_info(company_name); the method assigns no field of self
LookupCompany(company_name, response) ==
    /\ Len(lookups) < MaxLookups
    /\ lookups' = Append(lookups, [op           |-> "get_company_info",
                                   company_name |-> company_name,
                                   response     |-> response,
                                   returned     |-> get_company_info(company_name, response)])
    /\ client' = client
    /\ UNCHANGED appVars

\* client.search_people(query, company); the method assigns no field of self
SearchPeople(query, company, response) ==
    /\ Len(lookups) < MaxLookups
    /\ lookups' = Append(lookups, [op       |-> "search_people",
                                   query    |-> query,
                                   company  |-> company,
                                   response |-> response,
                                   returned |-> search_people(query, company, response)])
    /\ client' = client
    /\ UNCHANGED appVars

ClientNext ==
    \/ \E company_name \in CompanyNames, response \in CompanyResponses :
          LookupCompany(company_name, response)
    \/ \E query \in SearchQueries, company \in SearchCompanies, response \in PeopleResponses :
          SearchPeople(query, company, response)

ClientSpec == Init /\ [][ClientNext]_vars

(***************************************************************************)
(* Properties                                                              *)
(***************************************************************************)
Returned(id) == pc[id] = "returned"

HasError(id) == "error" \in DOMAIN result[id]

IsSearch(c) == c.op = "search_people"

SearchCalls(id) == SelectSeq(calls[id], IsSearch)

IsCompanyCall(c) == c.op = "get_company_info"

CompanyCalls(id) == SelectSeq(calls[id], IsCompanyCall)

PurposeCalls(id, purpose) ==
    {i \in 1..Len(calls[id]) : calls[id][i].op = "llm" /\ calls[id][i].purpose = purpose}

StepsWith(steps, description) ==
    {i \in 1..Len(steps) : steps[i].description = description}

PastSearch(id) == pc[id] \in {"insights", "summary", "returned"}

\* C1: the step trace of every returned result holds no step with status
\* in_progress, also when a stage raised between begin and complete.
C1_NoStepInProgress ==
    \A id \in Ids :
        Returned(id) =>
            \A i \in 1..Len(result[id].steps) :
                result[id].steps[i].status # "in_progress"

AllowedMove(from, to) ==
    \/ to = from
    \/ from = "pending" /\ to = "in_progress"
    \/ from = "in_progress" /\ to \in {"completed", "failed"}

\* C2: the status of a persisted query record only moves pending ->
\* in_progress -> completed or failed, and never changes once it is
\* completed or failed.
C2_StatusTransitions ==
    [][\A id \in DOMAIN db :
          id \in DOMAIN db' /\ AllowedMove(db[id].status, db'[id].status)]_vars

\* C3: search_people is called at most twice in a run; the second call is
\* made, and recorded as the one broader-search step, exactly when the
\* primary search returned an empty list; there is never a third call.
C3_AtMostTwoSearches ==
    \A id \in Ids :
        LET sc == SearchCalls(id)
            steps == agent[id].steps
        IN  /\ Len(sc) <= 2
            /\ Cardinality(StepsWith(steps, SearchDescription)) <= 1
            /\ Cardinality(StepsWith(steps, BroaderDescription)) <= 1
            /\ Len(sc) = 2 => ~Truthy(sc[1].returned)
            /\ StepsWith(steps, BroaderDescription) # {}
                  <=> (Len(sc) >= 1 /\ ~Truthy(sc[1].returned))
            /\ PastSearch(id) =>
                  /\ Len(sc) >= 1
                  /\ Len(sc) = 2 <=> ~Truthy(sc[1].returned)

\* a run ended after an empty primary and an empty fallback search
C3_Witness ==
    \E id \in Ids :
        /\ Returned(id)
        /\ Len(SearchCalls(id)) = 2
        /\ ~Truthy(SearchCalls(id)[2].returned)
        /\ StepsWith(agent[id].steps, BroaderDescription) # {}

\* C4: the fallback search is called with the unmodified original query text
\* and without an organization, whatever the primary search used.
C4_FallbackUsesRawQuery ==
    \A id \in Ids :
        LET sc == SearchCalls(id)
        IN  Len(sc) >= 2 =>
               /\ sc[2].query = PyStr(db[id].query)
               /\ sc[2].company = PyNone
               /\ sc[2].search_term = db[id].query

\* an organization was extracted, the primary search used a role and the
\* organization, and the fallback call was made
C4_Witness ==
    \E id \in Ids :
        LET sc == SearchCalls(id)
        IN  /\ Len(sc) = 2
            /\ Truthy(frame[id].company_name)
            /\ sc[1].company = frame[id].company_name
            /\ sc[1].query = RoleEngineer
            /\ sc[1].query # sc[2].query

\* the steps begun so far are still there, in order
KeepsSteps(before, after) ==
    /\ Len(before) <= Len(after)
    /\ \A i \in 1..Len(before) :
          /\ after[i].description = before[i].description
          /\ after[i].reasoning = before[i].reasoning
          /\ after[i].start_time = before[i].start_time

C5_Final ==
    \A id \in Ids :
        Returned(id) =>
            /\ "steps" \in DOMAIN result[id]
            /\ result[id].steps = StepDicts(agent[id])
            /\ HasError(id) =>
                  LET steps == result[id].steps
                      n == Len(steps)
                  IN  /\ n >= 1
                      /\ StepsWith(steps, ErrorDescription) = {n}
                      /\ steps[n].status = "failed"
                      /\ steps[n].reasoning = T("An error occurred: ") \o result[id].error
                      /\ steps[n].result = PyDict([error_message |-> PyStr(result[id].error)])
                      /\ StepsWith(steps, SummaryDescription) = {}
                      /\ PurposeCalls(id, "summary") = {}

C5_Step ==
    \A id \in Ids :
        pc'[id] # "done" => KeepsSteps(agent[id].steps, agent'[id].steps)

\* C5: an exception no local fallback absorbs does not leave research():
\* it is caught once and recorded as exactly one failed step, the last of
\* the trace, carrying the message; no later stage runs, and the result
\* holds the error marker and every step begun before, in order.
C5_ErrorHandling == []C5_Final /\ [][C5_Step]_vars

\* a run that failed in the insight stage
C5_Witness ==
    \E id \in Ids :
        /\ Returned(id)
        /\ HasError(id)
        /\ Len(result[id].steps) >= 5
        /\ StepsWith(result[id].steps, InsightDescription) # {}

\* C6: a result returned with the error marker also holds the profiles and
\* insights accumulated before the failure.
C6_PartialResults ==
    \A id \in Ids :
        (Returned(id) /\ HasError(id) /\ Truthy(agent[id].profiles)) =>
            /\ "profiles" \in DOMAIN result[id]
            /\ "insights" \in DOMAIN result[id]
            /\ result[id].profiles = agent[id].profiles
            /\ result[id].insights = agent[id].insights

\* C7: the insight step exists, and the insight generator is called, exactly
\* when the run holds a profile after the search stage; with no profile
\* there is no insight step and the insights stay empty.
C7_InsightsIffProfiles ==
    \A id \in Ids :
        LET steps == agent[id].steps
            has == StepsWith(steps, InsightDescription) # {}
        IN  /\ Cardinality(StepsWith(steps, InsightDescription)) <= 1
            /\ has => Truthy(agent[id].profiles)
            /\ PurposeCalls(id, "insights") # {} => has
            /\ Cardinality(PurposeCalls(id, "insights")) <= 1
            /\ (PastSearch(id) /\ Truthy(agent[id].profiles)) => has
            /\ (Returned(id) /\ ~HasError(id) /\ has) => PurposeCalls(id, "insights") # {}
            /\ ~Truthy(agent[id].profiles) => agent[id].insights = PyList(<<>>)

\* the profiles came from the fallback search and the insight step ran
C7_Witness ==
    \E id \in Ids :
        /\ Returned(id)
        /\ ~HasError(id)
        /\ Len(SearchCalls(id)) = 2
        /\ Truthy(result[id].profiles)
        /\ StepsWith(result[id].steps, InsightDescription) # {}
        /\ Truthy(result[id].insights)

\* C8: a run that got through the search stage without an uncaught exception
\* executes the summary step exactly once, and that step is the last one of
\* a trace without error marker.
C8_SummaryAlways ==
    \A id \in Ids :
        (Returned(id) /\ Len(SearchCalls(id)) >= 1) =>
            LET steps == result[id].steps
            IN  /\ Cardinality(StepsWith(steps, SummaryDescription)) = 1
                /\ Cardinality(PurposeCalls(id, "summary")) = 1
                /\ ~HasError(id) => steps[Len(steps)].description = SummaryDescription

NoProfilesPhrase == T("No profiles found")

NoInsightsPhrase == T("No insights available")

\* C9: the summary of a run that ends without profiles contains the
\* phrases "No profiles found" and "No insights available", also when the
\* summary LLM call failed.
C9_PlaceholderSummary ==
    \A id \in Ids :
        (Returned(id) /\ ~HasError(id) /\ ~Truthy(result[id].profiles)) =>
            /\ result[id].summary.tag = "str"
            /\ Contains(result[id].summary.v, NoProfilesPhrase)
            /\ Contains(result[id].summary.v, NoInsightsPhrase)

IsCompanyStep(step) == step.description[1] = "Researching company: "

NotFound(response) ==
    ~(response.kind = "http" /\ response.status_code = 200 /\ HasItems(response.body))

CompanyLookups == {i \in 1..Len(lookups) : lookups[i].op = "get_company_info"}

PeopleLookups == {i \in 1..Len(lookups) : lookups[i].op = "search_people"}

\* the table entries whose key occurs in the lower-cased name
KeysIn(company_name) ==
    {i \in 1..Len(CompanyTable) : Contains(Lower(company_name), CompanyTable[i].key)}

\* the placeholder record for a name: "Unknown" and empty fields
Placeholder(company_name) ==
    PyDict([name         |-> PyStr(company_name),
            industry     |-> PyStr(T("Unknown")),
            location     |-> PyStr(T("Unknown")),
            description  |-> PyStr(T("No description available")),
            website      |-> PyStr(<<>>),
            linkedin_url |-> PyStr(<<>>),
            logo_url     |-> PyStr(<<>>)])

\* C11: when the provider fails or finds nothing, get_company_info returns
\* the table record of an organization exactly when that organization's key
\* occurs, case-insensitively, in the name, and the generic placeholder
\* record for every other name.
C11_TableMatch ==
    \A i \in CompanyLookups :
        NotFound(lookups[i].response) =>
            LET name == lookups[i].company_name
            IN  IF KeysIn(name) # {}
                THEN \E k \in KeysIn(name) :
                        lookups[i].returned = PyDict(PyStrRec(CompanyTable[k].data))
                ELSE lookups[i].returned = Placeholder(name)

C12_Same ==
    \A i, j \in CompanyLookups :
        (/\ lookups[i].company_name = lookups[j].company_name
         /\ NotFound(lookups[i].response)
         /\ NotFound(lookups[j].response)) =>
            /\ lookups[i].returned = lookups[j].returned
            /\ FallbackMatches(Lower(lookups[i].company_name)) = {} =>
                  lookups[i].returned = Placeholder(lookups[i].company_name)

C12_ClientUntouched == client' = client

C13_SearchNeverSynthetic ==
    \A i \in PeopleLookups :
        LET returned == lookups[i].returned
            response == lookups[i].response
        IN  /\ returned.tag = "list"
            /\ NotFound(response) => returned = PyList(<<>>)
            /\ Truthy(returned) =>
                  /\ ~NotFound(response)
                  /\ Len(returned.v) = Len(response.body.v["items"].v)
                  /\ \A k \in 1..Len(returned.v) :
                        \A field \in DOMAIN response.body.v["items"].v[k].v :
                            returned.v[k].v[field] = response.body.v["items"].v[k].v[field]

\* a search the provider failed, then a search it answered with two items
C13_Witness ==
    /\ Len(lookups) = 2
    /\ PeopleLookups = {1, 2}
    /\ lookups[1].response = ProviderRaises
    /\ lookups[1].returned = PyList(<<>>)
    /\ Len(lookups[2].returned.v) = 2

\* the analysis the run works with: the result of the completed Step 2
Analysis(id) == agent[id].steps[2].result.v

Analyzed(id) == Len(agent[id].steps) >= 2 /\ agent[id].steps[2].status = "completed"

\* the basic analysis of a query: no organization, the query as only role
BasicAnalysis(query) ==
    PyDict([company      |-> PyNone,
            roles        |-> PyList(<<PyStr(query)>>),
            technologies |-> PyList(<<>>)])

C14_Step ==
    \A id \in Ids : \A response \in AnalysisResponses :
        (response.kind # "json" /\ AnalyzeReturn(id, response)) =>
            /\ agent'[id].steps[2].status = "completed"
            /\ agent'[id].steps[2].result = BasicAnalysis(frame[id].query)
            /\ frame'[id].company_name = PyNone
            /\ frame'[id].roles = PyList(<<PyStr(frame[id].query)>>)
            /\ pc'[id] = "search"
            /\ "error" \notin DOMAIN result'[id]
            /\ \A i \in 1..Len(agent'[id].steps) : agent'[id].steps[i].status # "failed"

\* C14: when the analysis LLM call raises or its answer cannot be parsed,
\* _analyze_query returns exactly {company: None, roles: [query],
\* technologies: []}; the analysis step is completed with it, the run goes
\* on to the search, and there is neither a failed step nor an error marker.
C14_AnalysisFallback == [][C14_Step]_vars

\* the analysis call failed for a non-empty query and the run went on
C14_Witness ==
    \E id \in Ids :
        /\ pc[id] = "search"
        /\ frame[id].query = QueryGoogle
        /\ Analyzed(id)
        /\ agent[id].steps[2].result = BasicAnalysis(QueryGoogle)

CompanySteps(steps) == {i \in 1..Len(steps) : IsCompanyStep(steps[i])}

\* C15: the organization-lookup step exists, and get_company_info is called,
\* exactly when the analysis extracted an organization; without one there is
\* no such step, no lookup, and the result carries no organization info.
C15_LookupIffOrganization ==
    \A id \in Ids :
        LET steps == agent[id].steps
            cc == CompanyCalls(id)
            extracted == Analyzed(id) /\ Truthy(Get(agent[id].steps[2].result, "company", PyNone))
        IN  /\ CompanySteps(steps) # {} <=> extracted
            /\ Cardinality(CompanySteps(steps)) <= 1
            /\ Len(cc) <= 1
            /\ Len(cc) = 1 <=> (extracted /\ pc[id] # "company")
            /\ ~extracted =>
                  /\ agent[id].company_info = PyNone
                  /\ (Returned(id) /\ ~HasError(id)) => result[id].company = PyNone

\* the empty query, the analysis failing: no lookup step, no organization
C15_Witness ==
    \E id \in Ids :
        /\ Returned(id)
        /\ ~HasError(id)
        /\ frame[id].query = EmptyQuery
        /\ Analysis(id)["roles"] = PyList(<<PyStr(EmptyQuery)>>)
        /\ CompanySteps(result[id].steps) = {}
        /\ CompanyCalls(id) = <<>>
        /\ result[id].company = PyNone

\* C16: the primary search is called with the first extracted role when the
\* roles list is non-empty and with the raw query otherwise, and with the
\* extracted organization when there is one; for the empty query and the
\* basic analysis (roles = [""]) the search term is the empty text.
C16_PrimarySearchTerm ==
    \A id \in Ids :
        LET sc == SearchCalls(id)
        IN  Len(sc) >= 1 =>
               LET roles == Get(agent[id].steps[2].result, "roles", PyList(<<>>))
                   company == Get(agent[id].steps[2].result, "company", PyNone)
               IN  /\ Analyzed(id)
                   /\ sc[1].query = IF roles.v # <<>> THEN roles.v[1] ELSE PyStr(db[id].query)
                   /\ sc[1].company = IF Truthy(company) THEN company ELSE PyNone
                   /\ Truthy(company) =>
                         sc[1].search_term = sc[1].query.v \o T(" at ") \o company.v
                   /\ (db[id].query = EmptyQuery /\ roles = PyList(<<PyStr(EmptyQuery)>>)) =>
                         sc[1].search_term = <<>>

\* the empty query with the basic analysis: the search ran with the empty term
C16_Witness ==
    \E id \in Ids :
        /\ Len(SearchCalls(id)) >= 1
        /\ db[id].query = EmptyQuery
        /\ Analysis(id)["roles"] = PyList(<<PyStr(EmptyQuery)>>)
        /\ SearchCalls(id)[1].query = PyStr(<<>>)
        /\ SearchCalls(id)[1].search_term = <<>>

\* what _generate_insights hands back when its LLM call or parse failed
FailedInsights == PyList(<<PyStr(T("Unable to generate insights due to an error."))>>)

NonEmptyText(x) == x.tag = "str" /\ x.v # <<>>

C17_Final ==
    \A id \in Ids :
        (Returned(id) /\ agent[id].insights = FailedInsights) =>
            /\ ~HasError(id)
            /\ Cardinality(StepsWith(result[id].steps, SummaryDescription)) = 1
            /\ NonEmptyText(result[id].summary)

C17_Step ==
    \A id \in Ids :
        /\ \A response \in InsightResponses :
              (response.kind # "json" /\ InsightsReturn(id, response)) =>
                  /\ pc'[id] = "summary"
                  /\ agent'[id].insights = FailedInsights
                  /\ \A i \in StepsWith(agent'[id].steps, InsightDescription) :
                        agent'[id].steps[i].status = "completed"
                  /\ "error" \notin DOMAIN result'[id]
        /\ \A handler_ok \in BOOLEAN :
              (agent[id].insights = FailedInsights /\ RunnerFinish(id, TRUE, handler_ok)) =>
                  /\ db'[id].status = "completed"
                  /\ NonEmptyText(db'[id].summary)

Running(id) == pc[id] \in {"analyze", "company", "search", "fallback", "insights", "summary", "returned"}

C18_Running ==
    \A id \in Ids : Running(id) => (id \in DOMAIN db /\ db[id].status = "in_progress")

C18_Step ==
    \A id \in Ids : \A handler_ok \in BOOLEAN :
        /\ RunnerStart(id, "ok", handler_ok) =>
              /\ db'[id].status = "in_progress"
              /\ calls'[id] = <<>>
              /\ frame'[id].query = db[id].query
        /\ RunnerFinish(id, TRUE, handler_ok) =>
              IF HasError(id)
              THEN /\ db'[id].status = "failed"
                   /\ db'[id].summary.tag = "str"
                   /\ Contains(db'[id].summary.v, result[id].error)
                   /\ rows'[id] = rows[id]
              ELSE /\ db'[id].status = "completed"
                   /\ db'[id].summary = result[id].summary
                   /\ Len(rows'[id].steps) = Len(result[id].steps)
                   /\ Len(rows'[id].profiles) = Len(result[id].profiles.v)
                   /\ Len(rows'[id].insights) = Len(result[id].insights.v)
                   /\ \A i \in 1..Len(result[id].steps) :
                         LET res == result[id].steps[i].result
                             row == rows'[id].steps[i]
                         IN  /\ row.research_id = id
                             /\ row.description = result[id].steps[i].description
                             /\ row.status = result[id].steps[i].status
                             /\ res.tag \in {"dict", "list"} => row.result = PyStr(JsonDumps(res))
                             /\ res.tag = "none" => row.result = PyNone
                   /\ \A i \in 1..Len(result[id].profiles.v) :
                         rows'[id].profiles[i].name = result[id].profiles.v[i].v["name"]
                   /\ \A i \in 1..Len(result[id].insights.v) :
                         rows'[id].insights[i].text = result[id].insights.v[i]

\* C18: run_research_task commits status in_progress before it invokes the
\* pipeline; then, its commit succeeding, a result with the error marker
\* makes the record failed with a summary that contains the message, and
\* any other result makes it completed with the narrative summary and one
\* row per step, profile and insight, dict and list step results stored as
\* their JSON text.
C18_RunnerPersists == []C18_Running /\ [][C18_Step]_vars

\* a completed record with its rows; the search step's result is JSON text
C18_Witness ==
    \E id \in DOMAIN db :
        /\ db[id].status = "completed"
        /\ Len(rows[id].steps) >= 5
        /\ Len(rows[id].profiles) >= 1
        /\ Len(rows[id].insights) >= 1
        /\ \E i \in 1..Len(rows[id].steps) :
              rows[id].steps[i].result = PyStr(JsonDumps(PyDict([profiles_found |-> PyNum(1)])))

\* the runner returned: its task is over and nothing was raised to the loop
Finished(id) == pc[id] = "done"

C19_Caught(id, handler_ok) ==
    /\ Finished(id)'
    /\ handler_ok =>
          /\ db'[id].status = "failed"
          /\ db'[id].summary = PyStr(T("Research failed: ") \o DbError)
    /\ ~handler_ok => db' = db
    /\ rows' = rows

C19_Step ==
    \A id \in Ids : \A handler_ok \in BOOLEAN :
        /\ \A outcome \in {"get_raises", "commit_raises"} :
              RunnerStart(id, outcome, handler_ok) => C19_Caught(id, handler_ok)
        /\ RunnerFinish(id, FALSE, handler_ok) => C19_Caught(id, handler_ok)

\* C19: an exception raised inside run_research_task (a failed read or
\* write of the record or of the results) never leaves it: the runner
\* returns, the record is failed when the write of the except clause
\* succeeds, and nothing changes when that write fails too.
C19_RunnerSwallows == [][C19_Step]_vars

\* the runner met a database error, its except clause flipped the record to
\* failed, and the runner returned
C19_Witness ==
    \E id \in DOMAIN db :
        /\ Finished(id)
        /\ db[id].status = "failed"
        /\ db[id].summary = PyStr(T("Research failed: ") \o DbError)
        /\ rows[id] = NoRows

\* a record for a non-empty text exists
Submitted(id) == id \in DOMAIN db /\ db[id].query # EmptyQuery

\* the run of the record has begun (or is over)
Started(id) == pc[id] \notin {"idle", "scheduled", "unscheduled"}

\* C20: once a non-empty text has been submitted and its pending record
\* created, the run scheduled for it is eventually executed.
C20_EventuallyRun == \A id \in Ids : Submitted(id) ~> Started(id)

C21_Rows ==
    \A id \in DOMAIN rows :
        /\ \A i \in 1..Len(rows[id].steps) : rows[id].steps[i].research_id = id
        /\ \A i \in 1..Len(rows[id].profiles) : rows[id].profiles[i].research_id = id
        /\ \A i \in 1..Len(rows[id].insights) : rows[id].insights[i].research_id = id

C21_Step ==
    \A id \in DOMAIN pc :
        \* a step of another run (or a submission) leaves this run and its record alone
        /\ pc'[id] = pc[id] =>
              /\ agent'[id] = agent[id]
              /\ frame'[id] = frame[id]
              /\ calls'[id] = calls[id]
              /\ result'[id] = result[id]
              /\ id \in DOMAIN db =>
                    /\ db'[id] = db[id]
                    /\ rows'[id] = rows[id]
        \* a run starts on an agent of its own: the two steps it has begun itself
        /\ (pc[id] = "scheduled" /\ pc'[id] = "analyze") =>
              /\ Len(agent'[id].steps) = 2
              /\ agent'[id].profiles = PyList(<<>>)
              /\ agent'[id].insights = PyList(<<>>)
              /\ agent'[id].company_info = PyNone
              /\ frame'[id].query = db[id].query
        \* what is stored for the record is what its own run returned
        /\ (pc[id] = "returned" /\ db'[id].status = "completed") =>
              /\ db'[id].summary = result[id].summary
              /\ Len(rows'[id].steps) = Len(agent[id].steps)
              /\ Len(rows'[id].profiles) = Len(agent[id].profiles.v)
              /\ Len(rows'[id].insights) = Len(agent[id].insights.v)

\* C21: runs of distinct records that interleave at their awaits are
\* isolated: a run starts on its own agent state, a step of one run changes
\* neither the agent state nor the record nor the rows of another, and the
\* status, summary and rows stored for a record are those of its own run.
C21_Isolation == []C21_Rows /\ [][C21_Step]_vars

\* two runs for different queries are in flight at the same time
C21_Witness ==
    \E i, j \in DOMAIN pc :
        /\ i # j
        /\ pc[i] = "insights"
        /\ pc[j] = "search"
        /\ frame[i].query # frame[j].query
        /\ Len(agent[i].steps) > Len(agent[j].steps)

\* C22: while a record is pending or in_progress, no step, profile or
\* insight row exists for it: the trace surface shows nothing until the run
\* has ended.
C22_NoRowsBeforeEnd ==
    \A id \in DOMAIN db :
        db[id].status \in {"pending", "in_progress"} => rows[id] = NoRows

\* a run about to compose its summary: five steps in memory, no row stored
C22_Witness ==
    \E id \in DOMAIN db :
        /\ db[id].status = "in_progress"
        /\ pc[id] = "summary"
        /\ Len(agent[id].steps) >= 5
        /\ rows[id] = NoRows

\* the summaries run_research_task stores for the pipeline's error results
PipelineFailureSummaries ==
    {PyStr(T("Research failed: ") \o JoinError), PyStr(T("Research failed: ") \o LenError)}

\* C23: after a run whose pipeline ended with an uncaught stage exception
\* the record is failed, its summary holds the message, the pipeline was
\* not invoked again for it, and the steps attempted before the failure
\* are stored for the record, where the trace surface reads them.
C23_PartialTraceKept ==
    \A id \in DOMAIN db :
        (pc[id] = "done" /\ db[id].summary \in PipelineFailureSummaries) =>
            /\ db[id].status = "failed"
            /\ Len(rows[id].steps) >= 1

\* C24: a step serialized by to_dict and rebuilt as a step row by the task
\* runner keeps its description, reasoning, status, confidence and
\* duration, the duration being end_time - start_time when the step has an
\* end_time and null when it has none.
C24_StepRoundTrip ==
    \A id \in Ids :
        \A i \in 1..Len(agent[id].steps) :
            LET step == agent[id].steps[i]
                row == StepRow(id, to_dict(step))
            IN  /\ row.description = step.description
                /\ row.reasoning = step.reasoning
                /\ row.status = step.status
                /\ row.confidence = step.confidence
                /\ row.duration = IF step.end_time = PyNone
                                  THEN PyNone
                                  ELSE PyNum(step.end_time.v - step.start_time)

\* a returned trace with a step left without end_time and steps that took time
C24_Witness ==
    \E id \in Ids :
        /\ Returned(id)
        /\ \E i \in 1..Len(result[id].steps) :
              /\ result[id].steps[i].end_time = PyNone
              /\ StepRow(id, result[id].steps[i]).duration = PyNone
        /\ \E i \in 1..Len(result[id].steps) :
              /\ result[id].steps[i].start_time > 0
              /\ StepRow(id, result[id].steps[i]).duration = PyNum(1)

\* the place of a step in the fixed order of the stages; 8 is the error step
StageRank(step) ==
    CASE step.description = T("Initializing LinkedIn research") -> 1
      [] step.description = T("Analyzing query")                -> 2
      [] IsCompanyStep(step)                                    -> 3
      [] step.description = SearchDescription                   -> 4
      [] step.description = BroaderDescription                  -> 5
      [] step.description = InsightDescription                  -> 6
      [] step.description = SummaryDescription                  -> 7
      [] OTHER                                                  -> 8

C25_Order ==
    \A id \in Ids :
        (Returned(id) /\ ~HasError(id)) =>
            LET steps == result[id].steps
                n == Len(steps)
            IN  /\ n >= 4
                /\ StageRank(steps[1]) = 1
                /\ StageRank(steps[2]) = 2
                /\ StageRank(steps[n]) = 7
                /\ \E i \in 1..n : StageRank(steps[i]) = 4
                /\ \A i \in 1..(n - 1) : StageRank(steps[i]) < StageRank(steps[i + 1])

C25_OneOpen ==
    \A id \in Ids :
        \A i \in 1..(Len(agent[id].steps) - 1) :
            agent[id].steps[i].status # "in_progress"

\* C25: the stages of a run are sequential and in fixed order: a trace
\* without error marker is Init, Analyze, [Organization lookup], Search,
\* [Broader search], [Insights], Summary, each at most once; and a step is
\* begun only after the step before it was completed, so that only the last
\* step of a trace can be in_progress.
C25_Sequential == C25_Order /\ C25_OneOpen

BothSearchesEmpty(id) ==
    /\ Len(SearchCalls(id)) = 2
    /\ ~Truthy(SearchCalls(id)[1].returned)
    /\ ~Truthy(SearchCalls(id)[2].returned)

C26_Final ==
    \A id \in Ids :
        BothSearchesEmpty(id) =>
            LET steps == agent[id].steps
            IN  /\ \A i \in StepsWith(steps, SearchDescription) : steps[i].status = "failed"
                /\ \A i \in StepsWith(steps, BroaderDescription) : steps[i].status = "failed"
                /\ Cardinality(StepsWith(steps, SearchDescription)) = 1
                /\ Cardinality(StepsWith(steps, BroaderDescription)) = 1
                /\ pc[id] \in {"summary", "returned"}
                /\ Cardinality(StepsWith(steps, SummaryDescription)) = 1
                /\ Returned(id) =>
                      /\ ~HasError(id)
                      /\ PurposeCalls(id, "summary") # {}
                      /\ steps[Len(steps)].status = "completed"
                      /\ steps[Len(steps)].description = SummaryDescription

C26_Step ==
    \A id \in Ids : \A handler_ok \in BOOLEAN :
        (BothSearchesEmpty(id) /\ RunnerFinish(id, TRUE, handler_ok)) =>
            db'[id].status = "completed"

\* C26: when the primary and the fallback people search both return the
\* empty list, both search steps are failed, yet the run composes its
\* summary, its result has no error marker, and the record is stored as
\* completed.
C26_DirectoryFailureAbsorbed == []C26_Final /\ [][C26_Step]_vars

\* both searches found nobody and the run ended without error marker
C26_Witness ==
    \E id \in Ids :
        /\ Returned(id)
        /\ BothSearchesEmpty(id)
        /\ ~HasError(id)
        /\ result[id].profiles = PyList(<<>>)

C27_Inv ==
    \A id \in Ids :
        \A i \in 1..Len(agent[id].steps) :
            LET step == agent[id].steps[i]
            IN  /\ step.status \in {"in_progress", "completed", "failed"}
                /\ step.status = "in_progress" <=> step.end_time = PyNone
                /\ step.end_time = PyNone <=> to_dict(step).duration = PyNone

C27_Begin ==
    \A id \in Ids :
        LET before == agent[id].steps
            after == _add_step(agent[id], T("a step"), T("a reason")).steps
        IN  /\ Len(after) = Len(before) + 1
            /\ SubSeq(after, 1, Len(before)) = before
            /\ after[Len(after)].status = "in_progress"
            /\ after[Len(after)].description = T("a step")
            /\ after[Len(after)].end_time = PyNone

C27_Step ==
    \A id \in Ids :
        pc'[id] # "done" =>
            LET before == agent[id].steps
                after == agent'[id].steps
            IN  /\ Len(before) <= Len(after)
                /\ \A i \in 1..Len(before) :
                      /\ after[i].description = before[i].description
                      /\ after[i].start_time = before[i].start_time
                      /\ before[i].status # "in_progress" => after[i] = before[i]

\* C27: beginning a step appends one in_progress step at the end of the
\* trace and leaves the earlier steps as they are; a step is in_progress
\* exactly when it has no end_time, exactly when its serialized duration is
\* null; and a completed or failed step never changes again.
C27_StepTracker == [](C27_Inv /\ C27_Begin) /\ [][C27_Step]_vars

\* a trace with a completed, a failed and an in_progress step
C27_Witness ==
    \E id \in Ids :
        LET steps == agent[id].steps
        IN  /\ \E i \in 1..Len(steps) : steps[i].status = "completed"
            /\ \E i \in 1..Len(steps) : steps[i].status = "failed"
            /\ \E i \in 1..Len(steps) : steps[i].status = "in_progress"

IsLLMCall(c) == c.op = "llm"

C28_Bounds ==
    \A id \in Ids :
        /\ Len(SelectSeq(calls[id], IsLLMCall)) <= 3
        /\ \A purpose \in {"analyze", "insights", "summary"} :
              Cardinality(PurposeCalls(id, purpose)) <= 1
        /\ \A i \in 1..Len(calls[id]) :
              IsLLMCall(calls[id][i]) =>
                  calls[id][i].purpose \in {"analyze", "insights", "summary"}
        /\ Len(CompanyCalls(id)) <= 1
        /\ Len(SearchCalls(id)) <= 2
        /\ Len(agent[id].steps) <= 8
        /\ Cardinality({i \in 1..Len(agent[id].steps) :
                           StageRank(agent[id].steps[i]) = 8}) <= 1
        /\ \A rank \in 1..7 :
              Cardinality({i \in 1..Len(agent[id].steps) :
                              StageRank(agent[id].steps[i]) = rank}) <= 1

\* C28: every scheduled run ends, given that each outbound call returns or
\* raises; a run makes at most 3 LLM calls (analysis, insights, summary), at
\* most 1 organization lookup and at most 2 people searches, and its trace
\* holds at most 8 steps: each of the 7 stages at most once and at most one
\* error step.
C28_Termination ==
    /\ []C28_Bounds
    /\ \A id \in Ids : (pc[id] = "scheduled") ~> (pc[id] = "done")

\* a run at the end of the longest pipeline: three LLM calls, the
\* organization lookup, two people searches and seven steps
C28_Witness ==
    \E id \in Ids :
        /\ Returned(id)
        /\ Len(SelectSeq(calls[id], IsLLMCall)) = 3
        /\ Len(CompanyCalls(id)) = 1
        /\ Len(SearchCalls(id)) = 2
        /\ Len(agent[id].steps) = 7

C29_Inv ==
    \A id \in DOMAIN db :
        /\ db[id].status = "completed" =>
              /\ Len(rows[id].steps) >= 5
              /\ \A i \in 1..Len(rows[id].steps) : rows[id].steps[i].research_id = id
        /\ db[id].status = "failed" => rows[id] = NoRows

C29_Step ==
    \A id \in Ids : \A commit_ok, handler_ok \in BOOLEAN :
        RunnerFinish(id, commit_ok, handler_ok) =>
            /\ db'[id].status = "completed" =>
                  /\ commit_ok
                  /\ ~HasError(id)
                  /\ Len(rows'[id].steps) = Len(result[id].steps)
                  /\ \A i \in 1..Len(result[id].steps) :
                        rows'[id].steps[i].description = result[id].steps[i].description
                  /\ Len(rows'[id].profiles) = PyLen(result[id].profiles)
                  /\ \A i \in 1..Len(rows'[id].profiles) :
                        rows'[id].profiles[i].name = result[id].profiles.v[i].v["name"]
                  /\ Len(rows'[id].insights) = PyLen(result[id].insights)
                  /\ \A i \in 1..Len(rows'[id].insights) :
                        rows'[id].insights[i].text = result[id].insights.v[i]
            /\ ~commit_ok =>
                  /\ db'[id].status # "completed"
                  /\ rows'[id] = NoRows

\* C29: a record stored as completed has the step, profile and insight rows
\* of its run stored with it; when the write of the results fails the record
\* is not left completed, and a record that is failed has no rows.
C29_AtomicCompletion == []C29_Inv /\ [][C29_Step]_vars

\* a completed record with its step, profile and insight rows
C29_Witness ==
    \E id \in DOMAIN db :
        /\ db[id].status = "completed"
        /\ Len(rows[id].steps) >= 5
        /\ Len(rows[id].profiles) >= 2
        /\ Len(rows[id].insights) >= 1

\* C30: the profiles of the result are the list one search call returned,
\* in the provider's order: the primary search's list when it is not empty,
\* else the fallback search's list; the two lists are never merged.
C30_SingleSearchProfiles ==
    \A id \in Ids :
        LET sc == SearchCalls(id)
        IN  /\ Len(sc) = 2 => ~Truthy(sc[1].returned)
            /\ (PastSearch(id) /\ Len(sc) >= 1) =>
                  /\ Truthy(sc[1].returned) => Len(sc) = 1
                  /\ agent[id].profiles = IF Truthy(sc[1].returned)
                                          THEN sc[1].returned
                                          ELSE sc[2].returned
            /\ (Returned(id) /\ ~HasError(id)) =>
                  /\ Len(sc) >= 1
                  /\ result[id].profiles = agent[id].profiles

\* a result whose two profiles are the fallback search's list, in its order
C30_Witness ==
    \E id \in Ids :
        /\ Returned(id)
        /\ ~HasError(id)
        /\ Len(SearchCalls(id)) = 2
        /\ PyLen(result[id].profiles) = 2
        /\ result[id].profiles.v[1].v["name"] = PyStr(T("Cy"))
        /\ result[id].profiles.v[2].v["name"] = PyStr(T("Ada"))
        /\ result[id].profiles = SearchCalls(id)[2].returned

NoRecord(id) == id \notin DOMAIN db

C31_Inv ==
    \A id \in DOMAIN pc :
        NoRecord(id) =>
            /\ pc[id] \in {"idle", "scheduled", "done"}
            /\ calls[id] = <<>>
            /\ agent[id] = NewAgent
            /\ result[id] = NoResult
            /\ id \notin DOMAIN rows

C31_Step ==
    \A id \in DOMAIN pc :
        \A outcome \in {"ok", "get_raises", "commit_raises"}, handler_ok \in BOOLEAN :
            (NoRecord(id) /\ RunnerStart(id, outcome, handler_ok)) =>
                /\ pc'[id] = "done"
                /\ db' = db
                /\ rows' = rows
                /\ nextId' = nextId
                /\ calls' = calls
                /\ agent' = agent
                /\ frame' = frame
                /\ result' = result

\* C31: running the task runner for a query id that has no record does
\* nothing: the pipeline is not started, no outbound call is made, and no
\* record or row is created or changed.
C31_MissingRecordNoOp == []C31_Inv /\ [][C31_Step]_vars

\* the runner has run for an id without record, beside a completed record
C31_Witness ==
    \E id \in DOMAIN pc :
        /\ NoRecord(id)
        /\ pc[id] = "done"
        /\ \E other \in DOMAIN db :
              /\ db[other].status = "completed"
              /\ Len(rows[other].steps) >= 5

====
